---- MODULE Spec2Model ----
(***************************************************************************)
(* Model of client/src/utils/StudentsAnalyticsCalculator.ts: the student   *)
(* classifier, the per-class aggregation, the per-discipline pipeline      *)
(* (filter, sort, map) and the chart projection.                           *)
(*                                                                         *)
(* Representation.                                                         *)
(*  - A grade is an integer number of thousandths (7.0 is 7000), so that   *)
(*    6.999, 4.999 and 2.999 are representable exactly.                    *)
(*  - An optional field is a sequence of length at most one: <<>> when the *)
(*    field is absent (undefined), <<v>> when it holds v.                  *)
(*  - A string is a sequence of one-character strings.                     *)
(*  - An array lives in a heap (a sequence of arrays); a reference is an   *)
(*    index into the heap.  Array.filter, the spread copy and Array.map    *)
(*    allocate, Array.sort writes in place.                                *)
(***************************************************************************)
EXTENDS Integers, Sequences, FiniteSets, TLC

VARIABLES
    pc,          \* which call has returned
    enrollment,  \* argument of classifyStudent
    category,    \* its result
    classObj,    \* argument of calculateClassStatistics
    stats,       \* its result
    allClasses,  \* the caller's array passed to generateAnalyticsForDiscipline
    discipline,  \* the requested discipline
    analytics,   \* AnalyticsData[]: result of generateAnalyticsForDiscipline
    chartData    \* ChartDataPoint[]: result of transformToChartData

vars == <<pc, enrollment, category, classObj, stats, allClasses, discipline,
          analytics, chartData>>

----------------------------------------------------------------------------
(* Bounds of the model *)

MaxEnrollments == 4

MaxClasses == 3

MaxSeries == 2

----------------------------------------------------------------------------
(* Thresholds of the classification rule, in thousandths *)

ApprovedByAverageMin == 7000

FinalExamMin == 3000

ApprovedByGradeMin == 5000

----------------------------------------------------------------------------
(* Sequence helpers *)

Range(s) == {s[i] : i \in DOMAIN s}

SeqsUpTo(S, n) == UNION {[1..k -> S] : k \in 0..n}

\* the ?? operator: the left operand unless it is undefined
Coalesce(opt, default) == IF opt = <<>> THEN default ELSE opt[1]

----------------------------------------------------------------------------
(* classifyStudent *)

Categories ==
    {"approvedByAverage", "failedByAverage", "approvedByGrade",
     "failedByGrade", "failedByAttendance"}

\* bug: the grade branches are tried before the attendance flag
classifyStudent_GradesFirst(e) ==
    LET reprovadoPorFalta == Coalesce(e.reprovadoPorFalta, FALSE)
        mediaPosFinal     == Coalesce(e.mediaPosFinal, 0)
        mediaPreFinal     == Coalesce(e.mediaPreFinal, 0)
    IN  IF mediaPreFinal >= ApprovedByAverageMin THEN "approvedByAverage"
        ELSE IF reprovadoPorFalta THEN "failedByAttendance"
        ELSE IF mediaPreFinal >= FinalExamMin /\ mediaPreFinal < ApprovedByAverageMin
             THEN (IF mediaPosFinal >= ApprovedByGradeMin
                   THEN "approvedByGrade" ELSE "failedByGrade")
        ELSE "failedByAverage"

\* bug: the boundaries are strict (> 7.0, > 3.0, > 5.0)
classifyStudent_StrictBounds(e) ==
    LET reprovadoPorFalta == Coalesce(e.reprovadoPorFalta, FALSE)
        mediaPosFinal     == Coalesce(e.mediaPosFinal, 0)
        mediaPreFinal     == Coalesce(e.mediaPreFinal, 0)
    IN  IF reprovadoPorFalta THEN "failedByAttendance"
        ELSE IF mediaPreFinal > ApprovedByAverageMin THEN "approvedByAverage"
        ELSE IF mediaPreFinal > FinalExamMin /\ mediaPreFinal < ApprovedByAverageMin
             THEN (IF mediaPosFinal > ApprovedByGradeMin
                   THEN "approvedByGrade" ELSE "failedByGrade")
        ELSE "failedByAverage"

\* bug: an enrollment without a pre-final average has "no valid data" and
\* gets no category (the null of the declared return type)
classifyStudent_NullWhenMissing(e) ==
    LET reprovadoPorFalta == Coalesce(e.reprovadoPorFalta, FALSE)
        mediaPosFinal     == Coalesce(e.mediaPosFinal, 0)
        mediaPreFinal     == Coalesce(e.mediaPreFinal, 0)
    IN  IF reprovadoPorFalta THEN "failedByAttendance"
        ELSE IF e.mediaPreFinal = <<>> THEN "null"
        ELSE IF mediaPreFinal >= ApprovedByAverageMin THEN "approvedByAverage"
        ELSE IF mediaPreFinal >= FinalExamMin /\ mediaPreFinal < ApprovedByAverageMin
             THEN (IF mediaPosFinal >= ApprovedByGradeMin
                   THEN "approvedByGrade" ELSE "failedByGrade")
        ELSE "failedByAverage"

\* bug: a missing post-final average falls back to the pre-final average
classifyStudent_PosFromPre(e) ==
    LET reprovadoPorFalta == Coalesce(e.reprovadoPorFalta, FALSE)
        mediaPreFinal     == Coalesce(e.mediaPreFinal, 0)
        mediaPosFinal     == Coalesce(e.mediaPosFinal, mediaPreFinal)
    IN  IF reprovadoPorFalta THEN "failedByAttendance"
        ELSE IF mediaPreFinal >= ApprovedByAverageMin THEN "approvedByAverage"
        ELSE IF mediaPreFinal >= FinalExamMin /\ mediaPreFinal < ApprovedByAverageMin
             THEN (IF mediaPosFinal >= ApprovedByGradeMin
                   THEN "approvedByGrade" ELSE "failedByGrade")
        ELSE "failedByAverage"

classifyStudent(e) ==
    LET reprovadoPorFalta == Coalesce(e.reprovadoPorFalta, FALSE)
        mediaPosFinal     == Coalesce(e.mediaPosFinal, 0)
        mediaPreFinal     == Coalesce(e.mediaPreFinal, 0)
    IN  IF reprovadoPorFalta THEN "failedByAttendance"
        ELSE IF mediaPreFinal >= ApprovedByAverageMin THEN "approvedByAverage"
        ELSE IF mediaPreFinal >= FinalExamMin /\ mediaPreFinal < ApprovedByAverageMin
             THEN (IF mediaPosFinal >= ApprovedByGradeMin
                   THEN "approvedByGrade" ELSE "failedByGrade")
        ELSE "failedByAverage"

----------------------------------------------------------------------------
(* calculateClassStatistics *)

\* the stats literal of calculateClassStatistics
InitialStats(enrollments) ==
    [approvedByAverage  |-> 0,
     failedByAverage    |-> 0,
     approvedByGrade    |-> 0,
     failedByGrade      |-> 0,
     failedByAttendance |-> 0,
     totalStudents      |-> Len(enrollments)]

\* bug: both failures by grade are counted under failedByAverage
CountEnrollment_MergedFailures(st, e) ==
    LET c == classifyStudent(e)
    IN  IF c # "null"
        THEN (IF c = "failedByGrade"
              THEN [st EXCEPT !["failedByAverage"] = @ + 1]
              ELSE [st EXCEPT ![c] = @ + 1])
        ELSE st

\* the forEach callback: classify, and count when a category came back
CountEnrollment(st, e) ==
    LET c == classifyStudent(e)
    IN  IF c # "null" THEN [st EXCEPT ![c] = @ + 1] ELSE st

RECURSIVE ForEachFrom(_, _, _)
ForEachFrom(enrollments, i, st) ==
    IF i > Len(enrollments) THEN st
    ELSE ForEachFrom(enrollments, i + 1, CountEnrollment(st, enrollments[i]))

\* bug: the loop starts at the second element
ForEachEnrollment_SkipFirst(enrollments, st) == ForEachFrom(enrollments, 2, st)

\* enrollments.forEach(...), in array order
ForEachEnrollment(enrollments, st) == ForEachFrom(enrollments, 1, st)

\* classObj.enrollments || []: an array is truthy, an absent field is not
OrEmptyArray(opt) == IF opt = <<>> THEN <<>> ELSE opt[1]

calculateClassStatistics(c) ==
    LET enrollments == OrEmptyArray(c.enrollments)
    IN  ForEachEnrollment(enrollments, InitialStats(enrollments))

----------------------------------------------------------------------------
(* Strings *)

UpperCaseLetters ==
    <<"A", "B", "C", "D", "E", "F", "G", "H", "I", "J", "K", "L", "M",
      "N", "O", "P", "Q", "R", "S", "T", "U", "V", "W", "X", "Y", "Z">>

LowerCaseLetters ==
    <<"a", "b", "c", "d", "e", "f", "g", "h", "i", "j", "k", "l", "m",
      "n", "o", "p", "q", "r", "s", "t", "u", "v", "w", "x", "y", "z">>

DecimalDigits == <<"0", "1", "2", "3", "4", "5", "6", "7", "8", "9">>

LowerCaseChar(ch) ==
    IF \E i \in DOMAIN UpperCaseLetters : UpperCaseLetters[i] = ch
    THEN LowerCaseLetters[CHOOSE i \in DOMAIN UpperCaseLetters : UpperCaseLetters[i] = ch]
    ELSE ch

\* String.prototype.toLowerCase
toLowerCase(str) == [i \in DOMAIN str |-> LowerCaseChar(str[i])]

RECURSIVE DigitsOf(_)
DigitsOf(n) ==
    IF n < 10 THEN <<DecimalDigits[n + 1]>>
    ELSE Append(DigitsOf(n \div 10), DecimalDigits[(n % 10) + 1])

\* the string a template literal makes of an integer
NumberToString(n) == IF n < 0 THEN <<"-">> \o DigitsOf(0 - n) ELSE DigitsOf(n)

----------------------------------------------------------------------------
(* filterClassesByDiscipline, sortClassesByPeriod *)

\* bug: the comparison is case-sensitive
TopicMatches_CaseSensitive(c, d) == c.topic = d

\* the filter callback
TopicMatches(c, d) == toLowerCase(c.topic) = toLowerCase(d)

\* bug: the non-matching elements are removed from the array passed in
filterClassesByDiscipline_InPlace(heap, classes, d) ==
    LET Keep(c) == TopicMatches(c, d)
    IN  [heap |-> [heap EXCEPT ![classes] = SelectSeq(heap[classes], Keep)],
         ret  |-> classes]

\* classes.filter(...): a new array of the elements that pass, in order
filterClassesByDiscipline(heap, classes, d) ==
    LET Keep(c) == TopicMatches(c, d)
    IN  [heap |-> Append(heap, SelectSeq(heap[classes], Keep)),
         ret  |-> Len(heap) + 1]

\* bug: the semester is not compared
ComparePeriod_YearOnly(a, b) == a.year - b.year

\* the sort callback: negative when a comes first, positive when b does
ComparePeriod(a, b) ==
    IF a.year # b.year THEN a.year - b.year ELSE a.semester - b.semester

\* x put after every element that does not compare greater than it
RECURSIVE InsertByPeriod(_, _)
InsertByPeriod(sorted, x) ==
    IF sorted = <<>> THEN <<x>>
    ELSE IF ComparePeriod(sorted[Len(sorted)], x) > 0
         THEN Append(InsertByPeriod(SubSeq(sorted, 1, Len(sorted) - 1), x),
                     sorted[Len(sorted)])
         ELSE Append(sorted, x)

\* Array.prototype.sort with ComparePeriod: a stable sort (ECMAScript 2019)
RECURSIVE ArraySort(_)
ArraySort(s) ==
    IF s = <<>> THEN <<>>
    ELSE InsertByPeriod(ArraySort(SubSeq(s, 1, Len(s) - 1)), s[Len(s)])

\* [...classes] allocates the copy, .sort sorts the copy in place and returns it
sortClassesByPeriod(heap, classes) ==
    LET copy   == Len(heap) + 1
        spread == Append(heap, heap[classes])
    IN  [heap |-> [spread EXCEPT ![copy] = ArraySort(spread[copy])],
         ret  |-> copy]

----------------------------------------------------------------------------
(* generateAnalyticsForDiscipline, transformToChartData *)

PeriodLabel(c) == NumberToString(c.year) \o <<".">> \o NumberToString(c.semester)

\* the map callback of generateAnalyticsForDiscipline
AnalyticsEntry(c) ==
    [discipline  |-> c.topic,
     periodLabel |-> PeriodLabel(c),
     year        |-> c.year,
     semester    |-> c.semester,
     statistics  |-> calculateClassStatistics(c)]

\* classes.map(...): a new array, element by element, in order
MapAnalyticsEntry(classes) == [i \in DOMAIN classes |-> AnalyticsEntry(classes[i])]

generateAnalyticsForDiscipline(heap, d, classes) ==
    LET filteredClasses == filterClassesByDiscipline(heap, classes, d)
        sortedClasses   == sortClassesByPeriod(filteredClasses.heap, filteredClasses.ret)
    IN  [heap |-> sortedClasses.heap,
         ret  |-> MapAnalyticsEntry(sortedClasses.heap[sortedClasses.ret])]

\* bug: the two failure counters are exchanged
ChartDataPoint_Swapped(item) ==
    ("period" :> item.periodLabel)
    @@ ("APV. M" :> item.statistics.approvedByAverage)
    @@ ("APV. N" :> item.statistics.approvedByGrade)
    @@ ("REP. N" :> item.statistics.failedByAverage)
    @@ ("REP. M" :> item.statistics.failedByGrade)
    @@ ("REP. F" :> item.statistics.failedByAttendance)

\* the map callback of transformToChartData
ChartDataPoint(item) ==
    ("period" :> item.periodLabel)
    @@ ("APV. M" :> item.statistics.approvedByAverage)
    @@ ("APV. N" :> item.statistics.approvedByGrade)
    @@ ("REP. N" :> item.statistics.failedByGrade)
    @@ ("REP. M" :> item.statistics.failedByAverage)
    @@ ("REP. F" :> item.statistics.failedByAttendance)

\* analyticsData.map(...): a new array, element by element, in order
transformToChartData(analyticsData) ==
    [i \in DOMAIN analyticsData |-> ChartDataPoint(analyticsData[i])]

----------------------------------------------------------------------------
(* Inputs *)

Absent == <<>>

Present(v) == <<v>>

\* every combination of the boundary grades, each field present or absent
EnrollmentGrid ==
    [mediaPreFinal     : {Absent} \cup {Present(g) : g \in {-1000, 0, 2999, 3000, 6999, 7000, 9000}},
     mediaPosFinal     : {Absent} \cup {Present(g) : g \in {0, 4999, 5000, 10000}},
     reprovadoPorFalta : {Absent} \cup {Present(b) : b \in BOOLEAN}]

Enr(pre, pos, falta) ==
    [mediaPreFinal |-> pre, mediaPosFinal |-> pos, reprovadoPorFalta |-> falta]

\* enrollments of every category, and one with no grade field at all
EnrollmentSample ==
    {Enr(Absent, Absent, Absent),
     Enr(Present(8000), Absent, Absent),
     Enr(Present(5000), Present(6000), Present(FALSE)),
     Enr(Present(3000), Present(4999), Absent),
     Enr(Present(2999), Present(10000), Present(FALSE)),
     Enr(Present(9000), Absent, Present(TRUE))}

Topics == {<<"C", "a">>, <<"c", "a">>, <<"M", "a">>}

Queries == {<<"c", "a">>, <<"M", "A">>}

Periods == {<<2023, 2>>, <<2024, 1>>, <<2024, 2>>}

SomeEnrollments ==
    <<Enr(Present(8000), Absent, Absent),
      Enr(Present(5000), Present(6000), Absent),
      Enr(Absent, Absent, Present(TRUE))>>

\* the enrollment arrays a class of each topic may carry: absent, empty, filled
EnrollmentLists(topic) ==
    IF topic = <<"C", "a">> THEN {Present(<<>>)}
    ELSE IF topic = <<"c", "a">> THEN {Absent, Present(SomeEnrollments)}
    ELSE {Present(SomeEnrollments)}

TopicsWithEnrollments ==
    UNION {{<<topic, l>> : l \in EnrollmentLists(topic)} : topic \in Topics}

ClassSample ==
    {[topic |-> t[1], year |-> p[1], semester |-> p[2], enrollments |-> t[2]] :
        t \in TopicsWithEnrollments, p \in Periods}

StatisticsSample ==
    {[approvedByAverage  |-> a,
      failedByAverage    |-> b,
      approvedByGrade    |-> c,
      failedByGrade      |-> d,
      failedByAttendance |-> e,
      totalStudents      |-> a + b + c + d + e] :
        a \in {0, 1}, b \in {0, 2}, c \in {0, 3}, d \in {0, 4}, e \in {0, 5}}

AnalyticsSample ==
    {[discipline  |-> <<"M", "a">>,
      periodLabel |-> NumberToString(p[1]) \o <<".">> \o NumberToString(p[2]),
      year        |-> p[1],
      semester    |-> p[2],
      statistics  |-> st] :
        p \in {<<2024, 1>>, <<2023, 2>>}, st \in StatisticsSample}

----------------------------------------------------------------------------
(* The calls *)

NoEnrollment == Enr(Absent, Absent, Absent)

NoClass == [topic |-> <<>>, year |-> 0, semester |-> 0, enrollments |-> Absent]

ClassifyStudent ==
    /\ pc = "ready"
    /\ category' = classifyStudent(enrollment)
    /\ pc' = "classified"
    /\ UNCHANGED <<enrollment, classObj, stats, allClasses, discipline,
                   analytics, chartData>>

CalculateClassStatistics ==
    /\ pc = "ready"
    /\ stats' = calculateClassStatistics(classObj)
    /\ pc' = "aggregated"
    /\ UNCHANGED <<enrollment, category, classObj, allClasses, discipline,
                   analytics, chartData>>

\* the caller's array is cell 1 of the heap the call runs in
GenerateAnalyticsForDiscipline ==
    /\ pc = "ready"
    /\ LET call == generateAnalyticsForDiscipline(<<allClasses>>, discipline, 1)
       IN  /\ allClasses' = call.heap[1]
           /\ analytics' = call.ret
    /\ pc' = "generated"
    /\ UNCHANGED <<enrollment, category, classObj, stats, discipline, chartData>>

TransformToChartData ==
    /\ pc = "generated"
    /\ chartData' = transformToChartData(analytics)
    /\ pc' = "charted"
    /\ UNCHANGED <<enrollment, category, classObj, stats, allClasses,
                   discipline, analytics>>

\* classifyStudent on one enrollment
InitClassify ==
    /\ pc = "ready"
    /\ enrollment \in EnrollmentGrid
    /\ category = "pending"
    /\ classObj = NoClass
    /\ stats = InitialStats(<<>>)
    /\ allClasses = <<>>
    /\ discipline = <<>>
    /\ analytics = <<>>
    /\ chartData = <<>>

NextClassify == ClassifyStudent

SpecClassify == InitClassify /\ [][NextClassify]_vars

\* calculateClassStatistics on one class
InitStats ==
    /\ pc = "ready"
    /\ enrollment = NoEnrollment
    /\ category = "pending"
    /\ \E l \in {Absent} \cup {Present(s) : s \in SeqsUpTo(EnrollmentSample, MaxEnrollments)} :
          classObj = [topic |-> <<"M", "a">>, year |-> 2024, semester |-> 1,
                      enrollments |-> l]
    /\ stats = InitialStats(<<>>)
    /\ allClasses = <<>>
    /\ discipline = <<>>
    /\ analytics = <<>>
    /\ chartData = <<>>

NextStats == CalculateClassStatistics

SpecStats == InitStats /\ [][NextStats]_vars

\* transformToChartData on any analytics series
InitChart ==
    /\ pc = "generated"
    /\ enrollment = NoEnrollment
    /\ category = "pending"
    /\ classObj = NoClass
    /\ stats = InitialStats(<<>>)
    /\ allClasses = <<>>
    /\ discipline = <<>>
    /\ analytics \in SeqsUpTo(AnalyticsSample, MaxSeries)
    /\ chartData = <<>>

NextChart == TransformToChartData

SpecChart == InitChart /\ [][NextChart]_vars

\* generateAnalyticsForDiscipline, then transformToChartData on its result
Init ==
    /\ pc = "ready"
    /\ enrollment = NoEnrollment
    /\ category = "pending"
    /\ classObj = NoClass
    /\ stats = InitialStats(<<>>)
    /\ allClasses \in SeqsUpTo(ClassSample, MaxClasses)
    /\ discipline \in Queries
    /\ analytics = <<>>
    /\ chartData = <<>>

Next ==
    \/ GenerateAnalyticsForDiscipline
    \/ TransformToChartData

Spec == Init /\ [][Next]_vars

----------------------------------------------------------------------------
(* Properties of classifyStudent, under SpecClassify *)

\* C1: an enrollment whose reprovadoPorFalta flag is true is classified
\* failedByAttendance, whatever its two averages are (present or absent,
\* 9.0 included): the attendance check wins over every grade branch.
C1_AttendanceOverridesGrades ==
    (pc = "classified" /\ enrollment.reprovadoPorFalta = Present(TRUE))
        => category = "failedByAttendance"

C1_Witness ==
    /\ pc = "classified"
    /\ enrollment.reprovadoPorFalta = Present(TRUE)
    /\ enrollment.mediaPreFinal = Present(9000)
    /\ category = "failedByAttendance"

WithDefaults(e) ==
    [mediaPreFinal     |-> IF e.mediaPreFinal = Absent THEN Present(0) ELSE e.mediaPreFinal,
     mediaPosFinal     |-> IF e.mediaPosFinal = Absent THEN Present(0) ELSE e.mediaPosFinal,
     reprovadoPorFalta |-> IF e.reprovadoPorFalta = Absent THEN Present(FALSE)
                           ELSE e.reprovadoPorFalta]

----------------------------------------------------------------------------
(* Properties of calculateClassStatistics, under SpecStats *)

OutcomeSum(st) ==
    st.approvedByAverage + st.failedByAverage + st.approvedByGrade
        + st.failedByGrade + st.failedByAttendance

\* the enrollments of a class, none when the field is absent
EnrollmentsOf(c) == IF c.enrollments = Absent THEN <<>> ELSE c.enrollments[1]

C4_CountersCountCategories ==
    pc = "aggregated" =>
        LET es == EnrollmentsOf(classObj)
        IN  /\ stats.totalStudents = Len(es)
            /\ \A cat \in Categories :
                  stats[cat] = Cardinality({i \in DOMAIN es : classifyStudent(es[i]) = cat})
            /\ DOMAIN stats = Categories \cup {"totalStudents"}
            /\ es = <<>> => \A k \in DOMAIN stats : stats[k] = 0

C4_Witness ==
    /\ pc = "aggregated"
    /\ stats.failedByGrade = 1
    /\ stats.failedByAverage = 1
    /\ stats.approvedByAverage = 2
    /\ stats.totalStudents = 4

C4_WitnessAbsent ==
    /\ pc = "aggregated"
    /\ classObj.enrollments = Absent
    /\ stats.totalStudents = 0

AddStatistics(s, t) == [k \in DOMAIN s |-> s[k] + t[k]]

WithEnrollments(c, es) == [c EXCEPT !.enrollments = Present(es)]

\* C9: the statistics do not depend on the order of the enrollments (every
\* permutation of them gives the same statistics), and the statistics of a
\* concatenation are the counter-wise sum of the statistics of its parts.
C9_OrderIndependent ==
    pc = "aggregated" =>
        LET es == EnrollmentsOf(classObj)
        IN  /\ \A p \in Permutations(DOMAIN es) :
                  calculateClassStatistics(
                      WithEnrollments(classObj, [i \in DOMAIN es |-> es[p[i]]])) = stats
            /\ \A k \in 0..Len(es) :
                  AddStatistics(
                      calculateClassStatistics(WithEnrollments(classObj, SubSeq(es, 1, k))),
                      calculateClassStatistics(
                          WithEnrollments(classObj, SubSeq(es, k + 1, Len(es))))) = stats

C9_Witness ==
    /\ pc = "aggregated"
    /\ Len(EnrollmentsOf(classObj)) >= 3
    /\ Cardinality({k \in Categories : stats[k] > 0}) >= 3

----------------------------------------------------------------------------
(* Properties of generateAnalyticsForDiscipline, under Spec *)

Generated == pc \in {"generated", "charted"}

PeriodOf(x) == <<x.year, x.semester>>

\* p comes no later than q: by year, then by semester
PeriodLeq(p, q) == p[1] < q[1] \/ (p[1] = q[1] /\ p[2] <= q[2])

LowerCaseEqual(s, t) == toLowerCase(s) = toLowerCase(t)

\* the indices of the classes of the requested discipline
MatchingIndices == {i \in DOMAIN allClasses : LowerCaseEqual(allClasses[i].topic, discipline)}

\* the subsequence of s at the indices in I
RECURSIVE Restrict(_, _)
Restrict(s, I) ==
    IF s = <<>> THEN <<>>
    ELSE Restrict(SubSeq(s, 1, Len(s) - 1), I)
            \o (IF Len(s) \in I THEN <<s[Len(s)]>> ELSE <<>>)

\* C5: the series is sorted non-decreasingly by (year, semester), and the
\* entries of one (year, semester) are those of the matching classes of
\* that period in their input order.
C5_SortedAndStable ==
    Generated =>
        /\ \A i, j \in DOMAIN analytics :
              i < j => PeriodLeq(PeriodOf(analytics[i]), PeriodOf(analytics[j]))
        /\ \A p \in {PeriodOf(allClasses[i]) : i \in DOMAIN allClasses}
                    \cup {PeriodOf(analytics[i]) : i \in DOMAIN analytics} :
              Restrict(analytics, {i \in DOMAIN analytics : PeriodOf(analytics[i]) = p})
                = LET kept == Restrict(allClasses,
                                       {i \in MatchingIndices : PeriodOf(allClasses[i]) = p})
                  IN  [i \in DOMAIN kept |-> AnalyticsEntry(kept[i])]

\* three entries, two of one period that differ, from an unsorted input
C5_Witness ==
    /\ pc = "generated"
    /\ Len(analytics) = 3
    /\ PeriodOf(analytics[1]) = PeriodOf(analytics[2])
    /\ analytics[1] # analytics[2]
    /\ PeriodOf(analytics[2]) # PeriodOf(analytics[3])
    /\ PeriodOf(allClasses[1]) # PeriodOf(analytics[1])

Occurrences(s, x) == Cardinality({i \in DOMAIN s : s[i] = x})

\* C6: the series holds one entry for each class whose topic equals the
\* requested discipline after lowercasing both, and no other entry
\* ("Ca" matches the request "ca"); when no class matches, the series and
\* its chart projection are empty.
C6_ExactlyTheMatchingClasses ==
    /\ Generated =>
          /\ Len(analytics) = Cardinality(MatchingIndices)
          /\ \A x \in Range(analytics)
                      \cup {AnalyticsEntry(allClasses[i]) : i \in MatchingIndices} :
                Occurrences(analytics, x)
                  = Cardinality({i \in MatchingIndices : AnalyticsEntry(allClasses[i]) = x})
          /\ (discipline = <<"c", "a">>) =>
                Len(analytics) >= Occurrences([i \in DOMAIN allClasses |-> allClasses[i].topic],
                                              <<"C", "a">>)
          /\ MatchingIndices = {} => analytics = <<>>
    /\ (pc = "charted" /\ MatchingIndices = {}) => chartData = <<>>

\* the request "ca" keeps a "Ca" and a "ca" class and drops a "Ma" class
C6_Witness ==
    /\ pc = "charted"
    /\ discipline = <<"c", "a">>
    /\ Len(allClasses) = 3
    /\ {allClasses[i].topic : i \in DOMAIN allClasses}
          = {<<"C", "a">>, <<"c", "a">>, <<"M", "a">>}
    /\ Len(analytics) = 2
    /\ Len(chartData) = 2

C6_WitnessNoMatch ==
    /\ pc = "charted"
    /\ Len(allClasses) = MaxClasses
    /\ MatchingIndices = {}
    /\ chartData = <<>>

\* C7: no call changes the caller's array of classes: it keeps its elements,
\* in their order, with their fields and enrollments.
C7_InputUnchanged == [][allClasses' = allClasses]_vars

\* a call has returned a reordered, filtered series, and the input is as it was
C7_Witness ==
    /\ pc = "generated"
    /\ Len(allClasses) = 3
    /\ Len(analytics) = 2
    /\ PeriodOf(analytics[1]) = PeriodOf(allClasses[3])
    /\ PeriodOf(analytics[2]) = PeriodOf(allClasses[1])
    /\ PeriodOf(allClasses[1]) # PeriodOf(allClasses[3])
    /\ ~LowerCaseEqual(allClasses[2].topic, discipline)

----------------------------------------------------------------------------
(* Properties of transformToChartData, under SpecChart *)

\* C8: the chart series has the length of the analytics series, and its
\* i-th record has the i-th entry's periodLabel as period and the five
\* counters under their keys: APV. M approvedByAverage, APV. N
\* approvedByGrade, REP. N failedByGrade, REP. M failedByAverage, REP. F
\* failedByAttendance.
C8_ChartIsReshape ==
    pc = "charted" =>
        /\ Len(chartData) = Len(analytics)
        /\ \A i \in DOMAIN analytics :
              /\ DOMAIN chartData[i]
                    = {"period", "APV. M", "APV. N", "REP. N", "REP. M", "REP. F"}
              /\ chartData[i]["period"] = analytics[i].periodLabel
              /\ chartData[i]["APV. M"] = analytics[i].statistics.approvedByAverage
              /\ chartData[i]["APV. N"] = analytics[i].statistics.approvedByGrade
              /\ chartData[i]["REP. N"] = analytics[i].statistics.failedByGrade
              /\ chartData[i]["REP. M"] = analytics[i].statistics.failedByAverage
              /\ chartData[i]["REP. F"] = analytics[i].statistics.failedByAttendance

\* two entries of different periods, the first with five different counters
C8_Witness ==
    /\ pc = "charted"
    /\ Len(analytics) = 2
    /\ analytics[1].periodLabel # analytics[2].periodLabel
    /\ Cardinality({analytics[1].statistics[k] : k \in Categories}) = 5
    /\ chartData[1]["REP. N"] = 4
    /\ chartData[1]["REP. M"] = 2

====
